---- MODULE Spec2Model ----
(***************************************************************************)
(* tlock: time lock encryption on top of a drand beacon.                   *)
(*                                                                         *)
(* The model follows one encrypt session (EncryptWithRound or              *)
(* EncryptWithDuration, both ending in encrypt) and one Decrypt session    *)
(* that reads the stream the encrypt session wrote.  Every call the code   *)
(* makes to a collaborator (random source, Network, ibe, Encrypter,        *)
(* Encoder, Decoder, Decrypter, chain verifier, reader, writer) is one     *)
(* step, so that the order of the calls is visible.                        *)
(*                                                                         *)
(* Byte strings.  The pipeline never looks at a plaintext byte, so byte i  *)
(* of the plaintext is represented by its offset i, and a byte string is   *)
(* a sequence of runs [off, n] (the bytes off .. off+n-1 of the input),    *)
(* adjacent runs merged.  Two byte strings are equal iff they hold the     *)
(* same bytes in the same order.                                           *)
(*                                                                         *)
(* Cryptography is symbolic: a ciphertext names the key and the data it    *)
(* was made from, and opening it with anything else fails.                 *)
(***************************************************************************)
EXTENDS Integers, Sequences, FiniteSets, TLC

\* Bounds of the model.
MaxRound == 2       \* rounds 0 .. MaxRound exist; 1 .. MaxRound can be asked for
MaxChunks == 2      \* plaintext lengths go up to MaxChunks * DataLen + 1

\* Faulty variant: a 32k buffer.
DataLenHalf == 1024 * 32

\* var data [1024 * 64]byte
DataLen == 1024 * 64

Rounds == 1..MaxRound

\* The 32-byte keys the random source can return; "" is the key not yet drawn.
Keys == {"key-a", "key-b"}

---------------------------------------------------------------------------
\* Errors: a chain of messages, outermost first; nil is the empty chain.

nil == <<>>

\* Faulty variant: %v in place of %w, the cause is no longer in the chain.
WrapFlat(msg, err) == <<msg>>

\* fmt.Errorf("msg: %w", err)
Wrap(msg, err) == <<msg>> \o err

\* errors.Is(err, target): target is err or one of the errors err wraps.
Is(err, target) ==
    /\ target # nil
    /\ Len(err) >= Len(target)
    /\ SubSeq(err, Len(err) - Len(target) + 1, Len(err)) = target

ErrTooEarly == <<"too early to decrypt">>
EOF == <<"EOF">>
ErrUnexpectedEOF == <<"unexpected EOF">>

\* What a Network call that takes a context can fail with.
NetErrs == {<<"context canceled">>, <<"network unreachable">>}

---------------------------------------------------------------------------
\* Byte strings as runs of plaintext offsets.

Run(off, n) == IF n = 0 THEN <<>> ELSE <<[off |-> off, n |-> n]>>

\* a followed by b
Concat(a, b) ==
    IF a = <<>> THEN b
    ELSE IF b = <<>> THEN a
    ELSE LET l == a[Len(a)]
             f == b[1]
         IN IF l.off + l.n = f.off
            THEN SubSeq(a, 1, Len(a) - 1)
                 \o <<[off |-> l.off, n |-> l.n + f.n]>>
                 \o SubSeq(b, 2, Len(b))
            ELSE a \o b

RECURSIVE NumBytes(_)
NumBytes(a) == IF a = <<>> THEN 0 ELSE a[1].n + NumBytes(Tail(a))

\* The plaintext of a reader that holds len bytes.
Plaintext(len) == Run(0, len)

\* Lengths the plaintext reader can hold: around every multiple of DataLen,
\* and the 130,000 bytes of the end-to-end scenario.
Lens ==
    {l \in {k * DataLen + d : k \in 0..MaxChunks, d \in {-1, 0, 1}} : l >= 0}
    \cup {130000}

---------------------------------------------------------------------------
\* Round identity and the beacon.

\* r >> (8 * k)
RECURSIVE ShiftRight(_, _)
ShiftRight(r, k) == IF k = 0 THEN r ELSE ShiftRight(r \div 256, k - 1)

\* chain.RoundToBytes: the round as 8 bytes, big endian.
RoundToBytes(r) == [i \in 1..8 |-> ShiftRight(r, 8 - i) % 256]

SHA256(bytes) == <<"sha256", bytes>>

CalculateEncryptionID(roundNumber) == SHA256(RoundToBytes(roundNumber))

\* The chain's long-term public key, and the chain hash.
ChainPK == "chain-public-key"
ChainHashValue == "chain-hash"

\* The beacon's signature of round r, as the bytes the network hands out
\* (unchained scheme: the signed message is sha256(RoundToBytes(r)) alone).
NilBytes == [kind |-> "nil", msg |-> <<>>]
BeaconSignature(r) == [kind |-> "G2", msg |-> SHA256(RoundToBytes(r))]

---------------------------------------------------------------------------
\* Group elements and the ibe package, symbolically.

\* kyber.Point.MarshalBinary of a G1 point, and KyberG1.UnmarshalBinary.
MarshalG1(point) == [kind |-> "G1bytes", r |-> point.r]
UnmarshalG1(bytes) ==
    IF bytes.kind = "G1bytes"
    THEN [point |-> [kind |-> "G1", r |-> bytes.r], err |-> nil]
    ELSE [point |-> [kind |-> "nil", r |-> <<>>], err |-> <<"invalid G1 point">>]

\* KyberG2.UnmarshalBinary
UnmarshalG2(bytes) ==
    IF bytes.kind = "G2"
    THEN [point |-> [kind |-> "G2pt", msg |-> bytes.msg], err |-> nil]
    ELSE [point |-> [kind |-> "nil", msg |-> <<>>], err |-> <<"invalid G2 point">>]

\* ibe.Encrypt(suite, master, ID, msg): U = rP with r = H3(sigma, msg),
\* V masks sigma with the pairing of master and H(ID), W masks msg with sigma.
IbeEncrypt(master, ID, msg) ==
    [U |-> [kind |-> "G1", r |-> <<"H3", msg>>],
     V |-> [kind |-> "V", pk |-> master, id |-> ID, r |-> <<"H3", msg>>],
     W |-> [kind |-> "W", msg |-> msg]]

\* ibe.Decrypt(suite, master, private, c): private unmasks V only if it is
\* the chain's signature of the identity the message was encrypted to; the
\* recovered msg is returned only if rP, recomputed from it, equals U.
IbeDecrypt(master, private, c) ==
    IF /\ c.U.kind = "G1" /\ c.V.kind = "V" /\ c.W.kind = "W"
       /\ private.kind = "G2pt"
       /\ private.msg = c.V.id
       /\ master = c.V.pk
       /\ c.U.r = c.V.r
       /\ c.U.r = <<"H3", c.W.msg>>
    THEN [msg |-> c.W.msg, err |-> nil]
    ELSE [msg |-> "", err |-> <<"invalid proof">>]

\* Faulty variant: any signature of the beacon passes, whatever round it signs.
VerifyAnyRound(b, publicKey) ==
    IF publicKey = ChainPK /\ b.Signature.kind = "G2"
    THEN nil
    ELSE <<"invalid bls signature">>

\* chain.NewVerifier(sch).VerifyBeacon(b, publicKey), unchained scheme: the
\* signature must be the chain's signature of sha256(RoundToBytes(b.Round)).
VerifyBeacon(b, publicKey) ==
    IF publicKey = ChainPK /\ b.Signature = BeaconSignature(b.Round)
    THEN nil
    ELSE <<"invalid bls signature">>

\* Encrypter.Encrypt(key, plainData) and Decrypter.Decrypt(key, cipherData):
\* authenticated encryption.
NilData == [kind |-> "nil", key |-> "", data |-> <<>>]
AeadEncrypt(key, plainData) == [kind |-> "aead", key |-> key, data |-> plainData]
AeadDecrypt(key, cipherData) ==
    IF cipherData.kind = "aead" /\ cipherData.key = key
    THEN [plainData |-> cipherData.data, err |-> nil]
    ELSE [plainData |-> <<>>, err |-> <<"message authentication failed">>]

\* The zero values of MetaData, CipherDEK and CipherInfo.
ZeroBytes == [kind |-> "nil", r |-> <<>>]
ZeroV == [kind |-> "nil", pk |-> "", id |-> <<>>, r |-> <<>>]
ZeroW == [kind |-> "nil", msg |-> ""]
ZeroCipherText == [U |-> [kind |-> "nil", r |-> <<>>], V |-> ZeroV, W |-> ZeroW]
ZeroCipherInfo ==
    [MetaData |-> [RoundNumber |-> 0, ChainHash |-> ""],
     CipherDEK |-> [KyberPoint |-> ZeroBytes, CipherV |-> ZeroV, CipherW |-> ZeroW],
     CipherData |-> NilData]

---------------------------------------------------------------------------
\* io.ReadFull(in, data[:]) on a reader holding len bytes, pos of them read:
\* the outcomes [n, err, read], where read is how far the reader advanced.
\* A reader may also fail, after handing out fewer bytes than asked for.
ErrRead == <<"read failed">>

ReadFull(rd) ==
    LET rem == rd.len - rd.pos
        want == DataLen
    IN  (IF rem >= want THEN {[n |-> want, err |-> nil]}
         ELSE IF rem > 0 THEN {[n |-> rem, err |-> ErrUnexpectedEOF]}
         ELSE {[n |-> 0, err |-> EOF]})
        \cup {[n |-> k, err |-> ErrRead] : k \in {j \in {0, 1} : j <= rem /\ j < want}}

---------------------------------------------------------------------------
VARIABLES
    latest,       \* the beacon has signed rounds 0 .. latest
    \* the encrypt session
    epc,          \* where the session is: init, rand, publicKey, ibe, marshal,
                  \* read, encrypt, encode, returned
    encIn,        \* in: the plaintext reader [len, pos]
    encOut,       \* out: the frames the Encoder wrote to the ciphertext writer
    roundNumber, id, dek, publicKey, cipherText, cipherInfo,
    encDone,      \* done
    data,         \* data[:n], as the run of plaintext it holds
    encErr,       \* the error the session returned
    elog,         \* the collaborator calls of the session, in order
    \* the Decrypt session
    dpc,          \* idle, decode, ready, unmarshalG2, unmarshalG1, publicKey,
                  \* verify, ibe, decrypt, write, returned
    decIn,        \* in: the ciphertext reader [frames, pos, cut, part]: whole
                  \* frames, how many were decoded, and whether the stream
                  \* ends inside one more frame, of which part was there
    decOut,       \* out: the bytes written to the plaintext writer
    info, sig, dekSignature, dekKyberPoint, decPublicKey, plainDEK, plainData,
    decDone,      \* done
    decErr,       \* the error the session returned
    dlog,         \* the collaborator calls of the session, in order
    netlog        \* what the network did at each IsReadyToDecrypt call

netVars == <<latest>>
encVars == <<epc, encIn, encOut, roundNumber, id, dek, publicKey, cipherText,
             cipherInfo, encDone, data, encErr, elog>>
decVars == <<dpc, decIn, decOut, info, sig, dekSignature, dekKyberPoint,
             decPublicKey, plainDEK, plainData, decDone, decErr, dlog, netlog>>
vars == <<netVars, encVars, decVars>>

Init ==
    /\ latest = 0
    /\ epc = "init"
    /\ encIn \in {[len |-> l, pos |-> 0] : l \in Lens}
    /\ encOut = <<>>
    /\ roundNumber = 0
    /\ id = <<>>
    /\ dek = ""
    /\ publicKey = ""
    /\ cipherText = ZeroCipherText
    /\ cipherInfo = ZeroCipherInfo
    /\ encDone = FALSE
    /\ data = <<>>
    /\ encErr = nil
    /\ elog = <<>>
    /\ dpc = "idle"
    /\ decIn = [frames |-> <<>>, pos |-> 0, cut |-> FALSE, part |-> ZeroCipherInfo]
    /\ decOut = <<>>
    /\ info = ZeroCipherInfo
    /\ sig = NilBytes
    /\ dekSignature = [kind |-> "nil", msg |-> <<>>]
    /\ dekKyberPoint = [kind |-> "nil", r |-> <<>>]
    /\ decPublicKey = ""
    /\ plainDEK = ""
    /\ plainData = <<>>
    /\ decDone = FALSE
    /\ decErr = nil
    /\ dlog = <<>>
    /\ netlog = <<>>

---------------------------------------------------------------------------
\* The beacon signs its next round.  Only IsReadyToDecrypt reads latest, so
\* the rounds signed since the last query are added when Decrypt is about
\* to ask again.
BeaconTick ==
    /\ dpc = "ready"
    /\ latest < MaxRound
    /\ latest' = latest + 1
    /\ UNCHANGED <<encVars, decVars>>

---------------------------------------------------------------------------
\* The encrypt session.

\* One collaborator call in a session's log: the operation and its error.
Log(log, op, err) == Append(log, [op |-> op, err |-> err])

\* return err
EncReturn(err) ==
    /\ epc' = "returned"
    /\ encErr' = err

\* Faulty variant: done is not looked at.
EncLoopIgnoresDone(done) == epc' = "read" /\ encErr' = encErr

\* The top of the loop: if done { return nil }
EncLoop(done) ==
    IF done THEN EncReturn(nil) ELSE epc' = "read" /\ encErr' = encErr

\* Faulty variant: the end of the input is taken for a last, empty chunk.
ReadOutcomeEmptyChunk(err) ==
    IF Is(err, EOF) \/ Is(err, ErrUnexpectedEOF) THEN "last"
    ELSE IF err # nil THEN "error"
    ELSE "chunk"

\* Faulty variant: the bytes read before the end of the input are dropped.
ReadOutcomeDropsLast(err) ==
    IF Is(err, EOF) \/ Is(err, ErrUnexpectedEOF) THEN "end"
    ELSE IF err # nil THEN "error"
    ELSE "chunk"

\* The switch on the error of io.ReadFull.
ReadOutcome(err) ==
    IF Is(err, EOF) THEN "end"
    ELSE IF Is(err, ErrUnexpectedEOF) THEN "last"
    ELSE IF err # nil THEN "error"
    ELSE "chunk"

\* Faulty variant: data[:], the whole buffer whatever was read.
ChunkWholeBuffer(rd, n) == Run(rd.pos, DataLen)

\* data[:n], the bytes the read put into the buffer.
Chunk(rd, n) == Run(rd.pos, n)

EncryptWithRound(r) ==
    /\ epc = "init"
    /\ roundNumber' = r
    /\ id' = CalculateEncryptionID(r)
    /\ elog' = Log(elog, "CalculateEncryptionID", nil)
    /\ epc' = "rand"
    /\ UNCHANGED <<encIn, encOut, dek, publicKey, cipherText, cipherInfo,
                   encDone, data, encErr>>
    /\ UNCHANGED <<netVars, decVars>>

\* Faulty variant: the error of EncryptionRoundAndID is not looked at.
EncryptWithDurationUnchecked ==
    /\ epc = "init"
    /\ \/ \E r \in Rounds :
            /\ roundNumber' = r
            /\ id' = CalculateEncryptionID(r)
            /\ elog' = Log(elog, "EncryptionRoundAndID", nil)
       \/ \E e \in NetErrs :
            /\ elog' = Log(elog, "EncryptionRoundAndID", e)
            /\ UNCHANGED <<roundNumber, id>>
    /\ epc' = "rand"
    /\ UNCHANGED <<encIn, encOut, dek, publicKey, cipherText, cipherInfo,
                   encDone, data, encErr>>
    /\ UNCHANGED <<netVars, decVars>>

\* network.EncryptionRoundAndID(ctx, duration): the round of now + duration
\* and its identity, or an error.
EncryptWithDuration ==
    /\ epc = "init"
    /\ \/ \E r \in Rounds :
            /\ roundNumber' = r
            /\ id' = CalculateEncryptionID(r)
            /\ elog' = Log(elog, "EncryptionRoundAndID", nil)
            /\ epc' = "rand"
            /\ encErr' = encErr
       \/ \E e \in NetErrs :
            /\ elog' = Log(elog, "EncryptionRoundAndID", e)
            /\ EncReturn(Wrap("round by duration", e))
            /\ UNCHANGED <<roundNumber, id>>
    /\ UNCHANGED <<encIn, encOut, dek, publicKey, cipherText, cipherInfo,
                   encDone, data>>
    /\ UNCHANGED <<netVars, decVars>>

\* rand.Read(dek)
ErrRand == <<"entropy source failed">>

EncRandRead ==
    /\ epc = "rand"
    /\ \/ \E k \in Keys :
            /\ dek' = k
            /\ elog' = Log(elog, "rand.Read", nil)
            /\ epc' = "publicKey"
            /\ encErr' = encErr
       \/ /\ elog' = Log(elog, "rand.Read", ErrRand)
          /\ EncReturn(Wrap("random key", ErrRand))
          /\ dek' = dek
    /\ UNCHANGED <<encIn, encOut, roundNumber, id, publicKey, cipherText,
                   cipherInfo, encDone, data>>
    /\ UNCHANGED <<netVars, decVars>>

\* network.PublicKey(ctx)
EncPublicKey ==
    /\ epc = "publicKey"
    /\ \/ /\ publicKey' = ChainPK
          /\ elog' = Log(elog, "PublicKey", nil)
          /\ epc' = "ibe"
          /\ encErr' = encErr
       \/ \E e \in NetErrs :
            /\ elog' = Log(elog, "PublicKey", e)
            /\ EncReturn(Wrap("public key", e))
            /\ publicKey' = publicKey
    /\ UNCHANGED <<encIn, encOut, roundNumber, id, dek, cipherText,
                   cipherInfo, encDone, data>>
    /\ UNCHANGED <<netVars, decVars>>

\* ibe.Encrypt(bls.NewBLS12381Suite(), publicKey, id, dek)
ErrIbe == <<"ibe failed">>

EncIbeEncrypt ==
    /\ epc = "ibe"
    /\ \/ /\ cipherText' = IbeEncrypt(publicKey, id, dek)
          /\ elog' = Log(elog, "ibe.Encrypt", nil)
          /\ epc' = "marshal"
          /\ encErr' = encErr
       \/ /\ elog' = Log(elog, "ibe.Encrypt", ErrIbe)
          /\ EncReturn(Wrap("encrypt dek", ErrIbe))
          /\ cipherText' = cipherText
    /\ UNCHANGED <<encIn, encOut, roundNumber, id, dek, publicKey,
                   cipherInfo, encDone, data>>
    /\ UNCHANGED <<netVars, decVars>>

\* Faulty variant: the round number is left out of the MetaData.
NewCipherInfoNoRound(round, chainHash, kyberPoint, c) ==
    [MetaData |-> [RoundNumber |-> 0, ChainHash |-> chainHash],
     CipherDEK |-> [KyberPoint |-> kyberPoint, CipherV |-> c.V, CipherW |-> c.W],
     CipherData |-> NilData]

\* The CipherInfo of the session, CipherData not yet set.
NewCipherInfo(round, chainHash, kyberPoint, c) ==
    [MetaData |-> [RoundNumber |-> round, ChainHash |-> chainHash],
     CipherDEK |-> [KyberPoint |-> kyberPoint, CipherV |-> c.V, CipherW |-> c.W],
     CipherData |-> NilData]

\* The error of cipherText.U.MarshalBinary().
ErrMarshal == <<"marshal failed">>

\* Faulty variant: the error of MarshalBinary is not looked at.
EncMarshalUnchecked ==
    /\ epc = "marshal"
    /\ \/ /\ cipherInfo' = NewCipherInfo(roundNumber, ChainHashValue,
                                         MarshalG1(cipherText.U), cipherText)
          /\ elog' = Log(elog, "MarshalBinary", nil)
       \/ /\ cipherInfo' = NewCipherInfo(roundNumber, ChainHashValue,
                                         ZeroBytes, cipherText)
          /\ elog' = Log(elog, "MarshalBinary", ErrMarshal)
    /\ EncLoop(FALSE)
    /\ UNCHANGED <<encIn, encOut, roundNumber, id, dek, publicKey,
                   cipherText, encDone, data>>
    /\ UNCHANGED <<netVars, decVars>>

\* cipherText.U.MarshalBinary(), then cipherInfo := CipherInfo{...}
EncMarshal ==
    /\ epc = "marshal"
    /\ \/ /\ cipherInfo' = NewCipherInfo(roundNumber, ChainHashValue,
                                         MarshalG1(cipherText.U), cipherText)
          /\ elog' = Log(elog, "MarshalBinary", nil)
          /\ EncLoop(FALSE)
       \/ /\ elog' = Log(elog, "MarshalBinary", ErrMarshal)
          /\ EncReturn(Wrap("marshal kyber point", ErrMarshal))
          /\ cipherInfo' = cipherInfo
    /\ UNCHANGED <<encIn, encOut, roundNumber, id, dek, publicKey,
                   cipherText, encDone, data>>
    /\ UNCHANGED <<netVars, decVars>>

\* n, err := io.ReadFull(in, data[:]) and the switch on err.
EncReadFull ==
    /\ epc = "read"
    /\ \E r \in ReadFull(encIn) :
         /\ elog' = Log(elog, "ReadFull", r.err)
         /\ encIn' = [encIn EXCEPT !.pos = @ + r.n]
         /\ data' = Chunk(encIn, r.n)
         /\ CASE ReadOutcome(r.err) = "end" ->
                   EncReturn(nil) /\ encDone' = encDone
              [] ReadOutcome(r.err) = "last" ->
                   encDone' = TRUE /\ epc' = "encrypt" /\ encErr' = encErr
              [] ReadOutcome(r.err) = "error" ->
                   EncReturn(Wrap("decoding input data", r.err)) /\ encDone' = encDone
              [] OTHER ->
                   encDone' = encDone /\ epc' = "encrypt" /\ encErr' = encErr
    /\ UNCHANGED <<encOut, roundNumber, id, dek, publicKey, cipherText, cipherInfo>>
    /\ UNCHANGED <<netVars, decVars>>

\* cipherInfo.CipherData, err = encrypter.Encrypt(dek, data[:n])
ErrCipher == <<"cipher failed">>

EncEncrypt ==
    /\ epc = "encrypt"
    /\ \/ /\ cipherInfo' = [cipherInfo EXCEPT !.CipherData = AeadEncrypt(dek, data)]
          /\ elog' = Log(elog, "Encrypt", nil)
          /\ epc' = "encode"
          /\ encErr' = encErr
       \/ /\ elog' = Log(elog, "Encrypt", ErrCipher)
          /\ EncReturn(Wrap("encrypt data", ErrCipher))
          /\ cipherInfo' = cipherInfo
    /\ UNCHANGED <<encIn, encOut, roundNumber, id, dek, publicKey,
                   cipherText, encDone, data>>
    /\ UNCHANGED <<netVars, decVars>>

\* encoder.Encode(out, cipherInfo, armor), then back to the top of the loop.
ErrWrite == <<"write failed">>

EncEncode ==
    /\ epc = "encode"
    /\ \/ /\ encOut' = Append(encOut, cipherInfo)
          /\ elog' = Log(elog, "Encode", nil)
          /\ EncLoop(encDone)
       \/ /\ elog' = Log(elog, "Encode", ErrWrite)
          /\ EncReturn(Wrap("encode", ErrWrite))
          /\ encOut' = encOut
    /\ UNCHANGED <<encIn, roundNumber, id, dek, publicKey, cipherText,
                   cipherInfo, encDone, data>>
    /\ UNCHANGED <<netVars, decVars>>

EncNext ==
    \/ \E r \in Rounds : EncryptWithRound(r)
    \/ EncryptWithDuration
    \/ EncRandRead
    \/ EncPublicKey
    \/ EncIbeEncrypt
    \/ EncMarshal
    \/ EncReadFull
    \/ EncEncrypt
    \/ EncEncode

---------------------------------------------------------------------------
\* The Network and the Decoder, as Decrypt sees them.

\* network.IsReadyToDecrypt(ctx, roundNumber): the answers (id, ready) the
\* interface can give, each with what happened in the network:
\*   signed    the round is signed and its signature is returned
\*   unsigned  the round is not signed yet
\*   failed    fetching the signature failed (the context was cancelled, the
\*             network was unreachable); the interface has no error result,
\*             so the failure comes back as one of the two values of ready
\*   wrong     the signature returned is the beacon's, of another round
IsReadyToDecrypt(round) ==
    (IF round <= latest
     THEN {[id |-> BeaconSignature(round), ready |-> TRUE, event |-> "signed"]}
     ELSE {[id |-> NilBytes, ready |-> FALSE, event |-> "unsigned"]})
    \cup {[id |-> NilBytes, ready |-> b, event |-> "failed"] : b \in BOOLEAN}
    \cup {[id |-> BeaconSignature(r), ready |-> TRUE, event |-> "wrong"] :
            r \in {q \in 0..latest : q # round}}

\* The part of a frame a stream holds when it ends inside the frame: none of
\* it, its MetaData, all but its CipherData, or all but the end of its
\* CipherData.
Parts(f) ==
    {ZeroCipherInfo,
     [ZeroCipherInfo EXCEPT !.MetaData = f.MetaData],
     [f EXCEPT !.CipherData = NilData],
     [f EXCEPT !.CipherData.kind = "short"]}

\* A frame with one byte of one field changed.  A changed KyberPoint is the
\* encoding of no point of G1 or of another point; a changed CipherV or
\* CipherW unmasks to another sigma or another message; changed CipherData
\* carries a tag that no longer fits.
Fields == {"CipherData", "KyberPoint", "CipherV", "CipherW"}

Flip(f, field) ==
    CASE field = "CipherData" -> {[f EXCEPT !.CipherData.kind = "flipped"]}
      [] field = "KyberPoint" ->
           {[f EXCEPT !.CipherDEK.KyberPoint.kind = "flipped"],
            [f EXCEPT !.CipherDEK.KyberPoint.r = <<"flipped", @>>]}
      [] field = "CipherV" -> {[f EXCEPT !.CipherDEK.CipherV.r = <<"flipped", @>>]}
      [] field = "CipherW" -> {[f EXCEPT !.CipherDEK.CipherW.msg = "flipped"]}

\* The streams made of the stream out by changing one field of one frame.
Tampered(out) ==
    UNION {UNION {{[out EXCEPT ![i] = g] : g \in Flip(out[i], field)} :
                    field \in Fields} : i \in 1..Len(out)}

\* The frame an encrypt session for round r with the same data encryption
\* key writes for the chunk of frame f.
Rewrap(f, key, r) ==
    LET c == IbeEncrypt(ChainPK, CalculateEncryptionID(r), key)
    IN [NewCipherInfo(r, ChainHashValue, MarshalG1(c.U), c)
          EXCEPT !.CipherData = f.CipherData]

\* The streams with frames of two rounds: the first frames of out, followed
\* by the frames a session for another round writes for the rest of the
\* input.
Spliced(out, key, round) ==
    {[i \in 1..Len(out) |-> IF i < j THEN out[i] ELSE Rewrap(out[i], key, r)] :
        j \in 2..Len(out), r \in Rounds \ {round}}

\* decoder.Decode(in, armor): the next frame; io.EOF when the stream ends at
\* a frame boundary; io.ErrUnexpectedEOF, with what was read of the frame,
\* when it ends inside a frame; or another error when the reader fails.
ErrCodec == <<"decode failed">>

Decode(rd) ==
    (IF rd.pos < Len(rd.frames)
     THEN {[info |-> rd.frames[rd.pos + 1], err |-> nil, n |-> 1]}
     ELSE IF rd.cut /\ rd.pos = Len(rd.frames)
     THEN {[info |-> rd.part, err |-> Wrap("decode", ErrUnexpectedEOF), n |-> 1]}
     ELSE {[info |-> ZeroCipherInfo, err |-> EOF, n |-> 0]})
    \cup {[info |-> ZeroCipherInfo, err |-> ErrCodec, n |-> 0]}

---------------------------------------------------------------------------
\* The Decrypt session.

\* return err
DecReturn(err) ==
    /\ dpc' = "returned"
    /\ decErr' = err

\* The top of the loop: if done { return nil }
DecLoop(done) ==
    IF done THEN DecReturn(nil) ELSE dpc' = "decode" /\ decErr' = decErr

\* Faulty variant: io.ErrUnexpectedEOF is taken for no error.
DecodeOutcomeNoLast(err) ==
    IF Is(err, EOF) THEN "end"
    ELSE IF Is(err, ErrUnexpectedEOF) THEN "frame"
    ELSE IF err # nil THEN "error"
    ELSE "frame"

\* The switch on the error of decoder.Decode.
DecodeOutcome(err) ==
    IF Is(err, EOF) THEN "end"
    ELSE IF Is(err, ErrUnexpectedEOF) THEN "last"
    ELSE IF err # nil THEN "error"
    ELSE "frame"

\* Faulty variant: the ready flag is not looked at.
GateOpen(ready) == nil

\* decryptDEK: if !ready { return nil, ErrTooEarly }
Gate(ready) == IF ~ready THEN ErrTooEarly ELSE nil

\* Decrypt is called on the stream the encrypt session wrote: all of it
\* (k = Len(encOut), not cut), or its first k frames followed by what the
\* decoder returns with io.ErrUnexpectedEOF: a part of the next frame, or
\* the last frame when the stream ends where the decoder expects more.
Decrypt(k, part) ==
    /\ dpc = "idle"
    /\ epc = "returned"
    /\ decIn' = [frames |-> SubSeq(encOut, 1, k), pos |-> 0,
                 cut |-> k < Len(encOut), part |-> part]
    /\ DecLoop(FALSE)
    /\ UNCHANGED <<decOut, info, sig, dekSignature, dekKyberPoint,
                   decPublicKey, plainDEK, plainData, decDone, dlog, netlog>>
    /\ UNCHANGED <<netVars, encVars>>

\* Decrypt is called on a stream of whole frames that is not the one the
\* encrypt session wrote.
DecryptStream(frames) ==
    /\ dpc = "idle"
    /\ epc = "returned"
    /\ encErr = nil
    /\ decIn' = [frames |-> frames, pos |-> 0, cut |-> FALSE,
                 part |-> ZeroCipherInfo]
    /\ DecLoop(FALSE)
    /\ UNCHANGED <<decOut, info, sig, dekSignature, dekKyberPoint,
                   decPublicKey, plainDEK, plainData, decDone, dlog, netlog>>
    /\ UNCHANGED <<netVars, encVars>>

\* info, err := decoder.Decode(in, armor) and the switch on err.
DecDecode ==
    /\ dpc = "decode"
    /\ \E r \in Decode(decIn) :
         /\ dlog' = Log(dlog, "Decode", r.err)
         /\ decIn' = [decIn EXCEPT !.pos = @ + r.n]
         /\ info' = r.info
         /\ CASE DecodeOutcome(r.err) = "end" ->
                   DecReturn(nil) /\ decDone' = decDone
              [] DecodeOutcome(r.err) = "last" ->
                   decDone' = TRUE /\ dpc' = "ready" /\ decErr' = decErr
              [] DecodeOutcome(r.err) = "error" ->
                   DecReturn(Wrap("decoding input data", r.err)) /\ decDone' = decDone
              [] OTHER ->
                   decDone' = decDone /\ dpc' = "ready" /\ decErr' = decErr
    /\ UNCHANGED <<decOut, sig, dekSignature, dekKyberPoint, decPublicKey,
                   plainDEK, plainData, netlog>>
    /\ UNCHANGED <<netVars, encVars>>

\* Faulty variant: every frame is asked for with the round of the first frame.
DecIsReadyFirstRound ==
    /\ dpc = "ready"
    /\ LET round == IF decIn.frames = <<>> THEN info.MetaData.RoundNumber
                    ELSE decIn.frames[1].MetaData.RoundNumber
       IN \E a \in IsReadyToDecrypt(round) :
         /\ netlog' = Append(netlog, [round |-> round,
                                      event |-> a.event, ready |-> a.ready])
         /\ dlog' = Log(dlog, "IsReadyToDecrypt", Gate(a.ready))
         /\ sig' = a.id
         /\ IF Gate(a.ready) # nil
            THEN DecReturn(Wrap("decrypt dek", Gate(a.ready)))
            ELSE dpc' = "unmarshalG2" /\ decErr' = decErr
    /\ UNCHANGED <<decIn, decOut, info, dekSignature, dekKyberPoint,
                   decPublicKey, plainDEK, plainData, decDone>>
    /\ UNCHANGED <<netVars, encVars>>

\* decryptDEK: id, ready := network.IsReadyToDecrypt(ctx, roundNumber)
DecIsReady ==
    /\ dpc = "ready"
    /\ \E a \in IsReadyToDecrypt(info.MetaData.RoundNumber) :
         /\ netlog' = Append(netlog, [round |-> info.MetaData.RoundNumber,
                                      event |-> a.event, ready |-> a.ready])
         /\ dlog' = Log(dlog, "IsReadyToDecrypt", Gate(a.ready))
         /\ sig' = a.id
         /\ IF Gate(a.ready) # nil
            THEN DecReturn(Wrap("decrypt dek", Gate(a.ready)))
            ELSE dpc' = "unmarshalG2" /\ decErr' = decErr
    /\ UNCHANGED <<decIn, decOut, info, dekSignature, dekKyberPoint,
                   decPublicKey, plainDEK, plainData, decDone>>
    /\ UNCHANGED <<netVars, encVars>>

\* decryptDEK: dekSignature.UnmarshalBinary(id)
DecUnmarshalG2 ==
    /\ dpc = "unmarshalG2"
    /\ LET r == UnmarshalG2(sig)
       IN /\ dekSignature' = r.point
          /\ dlog' = Log(dlog, "UnmarshalG2", r.err)
          /\ IF r.err # nil
             THEN DecReturn(Wrap("decrypt dek", Wrap("unmarshal kyber G2", r.err)))
             ELSE dpc' = "unmarshalG1" /\ decErr' = decErr
    /\ UNCHANGED <<decIn, decOut, info, sig, dekKyberPoint, decPublicKey,
                   plainDEK, plainData, decDone, netlog>>
    /\ UNCHANGED <<netVars, encVars>>

\* decryptDEK: dekKyberPoint.UnmarshalBinary(cipherDEK.KyberPoint)
DecUnmarshalG1 ==
    /\ dpc = "unmarshalG1"
    /\ LET r == UnmarshalG1(info.CipherDEK.KyberPoint)
       IN /\ dekKyberPoint' = r.point
          /\ dlog' = Log(dlog, "UnmarshalG1", r.err)
          /\ IF r.err # nil
             THEN DecReturn(Wrap("decrypt dek", Wrap("unmarshal kyber G1", r.err)))
             ELSE dpc' = "publicKey" /\ decErr' = decErr
    /\ UNCHANGED <<decIn, decOut, info, sig, dekSignature, decPublicKey,
                   plainDEK, plainData, decDone, netlog>>
    /\ UNCHANGED <<netVars, encVars>>

\* decryptDEK: network.PublicKey(ctx)
DecPublicKey ==
    /\ dpc = "publicKey"
    /\ \/ /\ decPublicKey' = ChainPK
          /\ dlog' = Log(dlog, "PublicKey", nil)
          /\ dpc' = "verify"
          /\ decErr' = decErr
       \/ \E e \in NetErrs :
            /\ dlog' = Log(dlog, "PublicKey", e)
            /\ DecReturn(Wrap("decrypt dek", Wrap("public key", e)))
            /\ decPublicKey' = decPublicKey
    /\ UNCHANGED <<decIn, decOut, info, sig, dekSignature, dekKyberPoint,
                   plainDEK, plainData, decDone, netlog>>
    /\ UNCHANGED <<netVars, encVars>>

\* Faulty variant: the error of VerifyBeacon is not looked at.
DecVerifyBeaconUnchecked ==
    /\ dpc = "verify"
    /\ LET b == [Round |-> info.MetaData.RoundNumber, Signature |-> sig]
           err == VerifyBeacon(b, decPublicKey)
       IN /\ dlog' = Log(dlog, "VerifyBeacon", err)
          /\ dpc' = "ibe" /\ decErr' = decErr
    /\ UNCHANGED <<decIn, decOut, info, sig, dekSignature, dekKyberPoint,
                   decPublicKey, plainDEK, plainData, decDone, netlog>>
    /\ UNCHANGED <<netVars, encVars>>

\* decryptDEK: chain.NewVerifier(sch).VerifyBeacon(b, publicKey) with
\* b = chain.Beacon{Round: roundNumber, Signature: id}
DecVerifyBeacon ==
    /\ dpc = "verify"
    /\ LET b == [Round |-> info.MetaData.RoundNumber, Signature |-> sig]
           err == VerifyBeacon(b, decPublicKey)
       IN /\ dlog' = Log(dlog, "VerifyBeacon", err)
          /\ IF err # nil
             THEN DecReturn(Wrap("decrypt dek", Wrap("verify beacon", err)))
             ELSE dpc' = "ibe" /\ decErr' = decErr
    /\ UNCHANGED <<decIn, decOut, info, sig, dekSignature, dekKyberPoint,
                   decPublicKey, plainDEK, plainData, decDone, netlog>>
    /\ UNCHANGED <<netVars, encVars>>

\* Faulty variant: the error of ibe.Decrypt is not looked at.
DecIbeDecryptUnchecked ==
    /\ dpc = "ibe"
    /\ LET c == [U |-> dekKyberPoint, V |-> info.CipherDEK.CipherV,
                 W |-> info.CipherDEK.CipherW]
           r == IbeDecrypt(decPublicKey, dekSignature, c)
       IN /\ plainDEK' = r.msg
          /\ dlog' = Log(dlog, "ibe.Decrypt", r.err)
          /\ dpc' = "decrypt" /\ decErr' = decErr
    /\ UNCHANGED <<decIn, decOut, info, sig, dekSignature, dekKyberPoint,
                   decPublicKey, plainData, decDone, netlog>>
    /\ UNCHANGED <<netVars, encVars>>

\* decryptDEK: ibe.Decrypt(bls.NewBLS12381Suite(), publicKey, &dekSignature, &dek)
\* with dek = ibe.Ciphertext{U: &dekKyberPoint, V: CipherV, W: CipherW}
DecIbeDecrypt ==
    /\ dpc = "ibe"
    /\ LET c == [U |-> dekKyberPoint, V |-> info.CipherDEK.CipherV,
                 W |-> info.CipherDEK.CipherW]
           r == IbeDecrypt(decPublicKey, dekSignature, c)
       IN /\ plainDEK' = r.msg
          /\ dlog' = Log(dlog, "ibe.Decrypt", r.err)
          /\ IF r.err # nil
             THEN DecReturn(Wrap("decrypt dek", Wrap("decrypt dek", r.err)))
             ELSE dpc' = "decrypt" /\ decErr' = decErr
    /\ UNCHANGED <<decIn, decOut, info, sig, dekSignature, dekKyberPoint,
                   decPublicKey, plainData, decDone, netlog>>
    /\ UNCHANGED <<netVars, encVars>>

\* Faulty variant: the error of decrypter.Decrypt is not looked at.
DecDecryptUnchecked ==
    /\ dpc = "decrypt"
    /\ LET r == AeadDecrypt(plainDEK, info.CipherData)
       IN /\ plainData' = r.plainData
          /\ dlog' = Log(dlog, "Decrypt", r.err)
          /\ dpc' = "write" /\ decErr' = decErr
    /\ UNCHANGED <<decIn, decOut, info, sig, dekSignature, dekKyberPoint,
                   decPublicKey, plainDEK, decDone, netlog>>
    /\ UNCHANGED <<netVars, encVars>>

\* plainData, err := decrypter.Decrypt(plainDEK, info.CipherData)
DecDecrypt ==
    /\ dpc = "decrypt"
    /\ LET r == AeadDecrypt(plainDEK, info.CipherData)
       IN /\ plainData' = r.plainData
          /\ dlog' = Log(dlog, "Decrypt", r.err)
          /\ IF r.err # nil
             THEN DecReturn(Wrap("decrypt data", r.err))
             ELSE dpc' = "write" /\ decErr' = decErr
    /\ UNCHANGED <<decIn, decOut, info, sig, dekSignature, dekKyberPoint,
                   decPublicKey, plainDEK, decDone, netlog>>
    /\ UNCHANGED <<netVars, encVars>>

\* Faulty variant: the error of out.Write is not looked at.
DecWriteUnchecked ==
    /\ dpc = "write"
    /\ \/ /\ decOut' = Concat(decOut, plainData)
          /\ dlog' = Log(dlog, "Write", nil)
       \/ /\ dlog' = Log(dlog, "Write", ErrWrite)
          /\ decOut' = decOut
    /\ DecLoop(decDone)
    /\ UNCHANGED <<decIn, info, sig, dekSignature, dekKyberPoint,
                   decPublicKey, plainDEK, plainData, decDone, netlog>>
    /\ UNCHANGED <<netVars, encVars>>

\* out.Write(plainData), then back to the top of the loop.
DecWrite ==
    /\ dpc = "write"
    /\ \/ /\ decOut' = Concat(decOut, plainData)
          /\ dlog' = Log(dlog, "Write", nil)
          /\ DecLoop(decDone)
       \/ /\ dlog' = Log(dlog, "Write", ErrWrite)
          /\ DecReturn(Wrap("write data", ErrWrite))
          /\ decOut' = decOut
    /\ UNCHANGED <<decIn, info, sig, dekSignature, dekKyberPoint,
                   decPublicKey, plainDEK, plainData, decDone, netlog>>
    /\ UNCHANGED <<netVars, encVars>>

\* One step of a Decrypt session that has started.
DecStep ==
    \/ DecDecode
    \/ DecIsReady
    \/ DecUnmarshalG2
    \/ DecUnmarshalG1
    \/ DecPublicKey
    \/ DecVerifyBeacon
    \/ DecIbeDecrypt
    \/ DecDecrypt
    \/ DecWrite

\* Decrypt on the stream encrypt wrote, whole or truncated.
DecNext ==
    \/ Decrypt(Len(encOut), ZeroCipherInfo)
    \/ \E k \in 0..(Len(encOut) - 1) : \E part \in Parts(encOut[k + 1]) :
         Decrypt(k, part)
    \/ encOut # <<>> /\ Decrypt(Len(encOut) - 1, encOut[Len(encOut)])
    \/ DecStep

Next == BeaconTick \/ EncNext \/ DecNext

Spec == Init /\ [][Next]_vars

\* The encrypt session alone.  encrypt is sequential code: it goes on to its
\* next statement as long as it has not returned, and every call it makes
\* on a finite reader returns.
EncSpec == Init /\ [][EncNext]_vars /\ WF_vars(EncNext)

\* Decrypt on a stream in which one field of one frame was changed.
TamperedNext ==
    \/ BeaconTick
    \/ EncNext
    \/ \E frames \in Tampered(encOut) : DecryptStream(frames)
    \/ DecStep

TamperedSpec == Init /\ [][TamperedNext]_vars

\* Decrypt on a stream with frames of two rounds.
SplicedNext ==
    \/ BeaconTick
    \/ EncNext
    \/ \E frames \in Spliced(encOut, dek, roundNumber) : DecryptStream(frames)
    \/ DecStep

SplicedSpec == Init /\ [][SplicedNext]_vars

---------------------------------------------------------------------------
\* Properties.

\* How often op was called in a session, and the last call.
Count(log, op) == Cardinality({i \in 1..Len(log) : log[i].op = op})
LastOp(log) == IF log = <<>> THEN "" ELSE log[Len(log)].op

\* The encrypt session was started by EncryptWithRound.
CalledWithRound ==
    elog # <<>> /\ elog[1].op = "CalculateEncryptionID"

\* The encrypt session was started by EncryptWithDuration.
CalledWithDuration ==
    elog # <<>> /\ elog[1].op = "EncryptionRoundAndID"

\* The frames the decoder returns from the stream Decrypt runs on.
DecFrames ==
    IF decIn.cut THEN Append(decIn.frames, decIn.part) ELSE decIn.frames

\* Decrypt runs on the whole stream the encrypt session wrote.
Intact == dpc # "idle" /\ ~decIn.cut /\ decIn.frames = encOut

\* Every answer of the network was the signature of the round asked for.
AlwaysSigned == \A i \in 1..Len(netlog) : netlog[i].event = "signed"

\* A collaborator of Decrypt failed for a reason of its own: the decoder's
\* reader, the public key fetch, the plaintext writer.
DecFailedIO ==
    \E i \in 1..Len(dlog) :
        \/ dlog[i].op = "Decode" /\ dlog[i].err = ErrCodec
        \/ dlog[i].op \in {"PublicKey", "Write"} /\ dlog[i].err # nil

\* C1: round trip. When the network answers every query with the signature
\* of the round asked for and no reader, writer or key fetch fails, Decrypt
\* on the stream written by a successful EncryptWithRound(P, R) returns
\* success and has written exactly P, whatever len(P) is with respect to
\* the chunk size.
C1_RoundTrip ==
    (/\ dpc = "returned" /\ Intact
     /\ CalledWithRound /\ encErr = nil
     /\ AlwaysSigned /\ ~DecFailedIO)
    => (decErr = nil /\ decOut = Plaintext(encIn.len))

C1_Witness ==
    /\ dpc = "returned" /\ Intact
    /\ CalledWithRound /\ encErr = nil
    /\ AlwaysSigned /\ ~DecFailedIO
    /\ encIn.len = DataLen + 1
    /\ decOut = Plaintext(DataLen + 1)

\* C2: too early. An answer ready = false ends the session at once: it is
\* the last answer, Decrypt has returned ErrTooEarly, the network was asked
\* once for each frame decoded, and no frame was decoded after the query.
C2_TooEarly ==
    \A i \in 1..Len(netlog) :
        ~netlog[i].ready =>
            /\ i = Len(netlog)
            /\ dpc = "returned"
            /\ Is(decErr, ErrTooEarly)
            /\ Count(dlog, "IsReadyToDecrypt") = i
            /\ Count(dlog, "Decode") = i
            /\ LastOp(dlog) = "IsReadyToDecrypt"
            /\ decIn.pos = i

C2_Witness ==
    /\ Len(netlog) = 2 /\ ~netlog[2].ready
    /\ Len(decIn.frames) = 3
    /\ dpc = "returned"

\* C3: on the stream of one encrypt session, when the round is not signed
\* yet at a query (or the first answer is ready = false), Decrypt returns
\* ErrTooEarly and the plaintext writer has received no byte.
C3_NothingWrittenTooEarly ==
    (/\ Intact
     /\ netlog # <<>>
     /\ \/ ~netlog[1].ready
        \/ \E i \in 1..Len(netlog) : netlog[i].event = "unsigned")
    => (dpc = "returned" /\ Is(decErr, ErrTooEarly) /\ decOut = <<>>)

C3_Witness ==
    /\ Intact /\ encErr = nil
    /\ Len(decIn.frames) >= 2
    /\ netlog # <<>> /\ netlog[1].event = "unsigned"
    /\ dpc = "returned" /\ decOut = <<>>

\* C4: error kinds. Decrypt returns ErrTooEarly only when the round of the
\* frame is not signed yet, and a failed signature fetch (a cancelled
\* context included) comes back as a network error.
C4_ErrorKinds ==
    dpc = "returned" =>
        /\ Is(decErr, ErrTooEarly) =>
              netlog # <<>> /\ netlog[Len(netlog)].round > latest
        /\ \A i \in 1..Len(netlog) :
              netlog[i].event = "failed" => \E e \in NetErrs : Is(decErr, e)

\* C5: wrong round. When the network answers with the beacon's signature of
\* another round, the frame never reaches ibe.Decrypt: Decrypt returns an
\* error, from VerifyBeacon if the frame got that far, and the frame's
\* plaintext is not written.
C5_WrongRoundRejected ==
    (netlog # <<>> /\ netlog[Len(netlog)].event = "wrong") =>
        /\ dpc \in {"unmarshalG2", "unmarshalG1", "publicKey", "verify", "returned"}
        /\ Count(dlog, "ibe.Decrypt") < Len(netlog)
        /\ Count(dlog, "Write") < Len(netlog)
        /\ dpc = "returned" =>
              /\ decErr # nil
              /\ LastOp(dlog) \in {"UnmarshalG1", "PublicKey", "VerifyBeacon"}
              /\ LastOp(dlog) = "VerifyBeacon" =>
                    Is(decErr, <<"verify beacon", "invalid bls signature">>)

C5_Witness ==
    /\ Intact
    /\ Len(netlog) = 2 /\ netlog[2].event = "wrong" /\ netlog[2].round = 2
    /\ dpc = "returned" /\ LastOp(dlog) = "VerifyBeacon"
    /\ decOut = Run(0, DataLen)

\* The plaintext sizes of the frames of a stream.
FrameSizes(out) == [i \in 1..Len(out) |-> NumBytes(out[i].CipherData.data)]

\* C6 as stated: 130,000 bytes give frames of 65,536, 65,536 and 1,808 bytes.
C6_AsStated ==
    (epc = "returned" /\ encErr = nil /\ encIn.len = 130000)
    => FrameSizes(encOut) = <<65536, 65536, 1808>>

\* C6, amended: a plaintext of 130,000 bytes is written as one full frame
\* and one short frame, of 65,536 and 64,464 plaintext bytes.
C6_FrameSizes ==
    (epc = "returned" /\ encErr = nil /\ encIn.len = 130000)
    => FrameSizes(encOut) = <<65536, 64464>>

C6_Witness ==
    epc = "returned" /\ encErr = nil /\ encIn.len = 130000 /\ Len(encOut) = 2

\* C7: empty input. When the first read of the plaintext returns io.EOF,
\* encrypt returns success at once and has written no frame; Decrypt on an
\* empty stream whose reader does not fail returns success, writes nothing
\* and never asks the network.
C7_EmptyInput ==
    /\ \A i \in 1..Len(elog) :
          (/\ elog[i] = [op |-> "ReadFull", err |-> EOF]
           /\ Count(SubSeq(elog, 1, i), "ReadFull") = 1)
          => /\ i = Len(elog)
             /\ epc = "returned" /\ encErr = nil
             /\ encOut = <<>>
             /\ encIn = [len |-> 0, pos |-> 0]
    /\ (/\ dpc = "returned" /\ Intact /\ decIn.frames = <<>>
        /\ ~DecFailedIO)
       => /\ decErr = nil
          /\ decOut = <<>>
          /\ netlog = <<>>
          /\ dlog = <<[op |-> "Decode", err |-> EOF]>>

C7_Witness ==
    /\ encIn.len = 0 /\ epc = "returned" /\ encErr = nil
    /\ LastOp(elog) = "ReadFull"
    /\ dpc = "returned" /\ decErr = nil /\ Intact
    /\ dlog = <<[op |-> "Decode", err |-> EOF]>>

\* The plaintext of the first k frames of a stream.
RECURSIVE PlainOf(_, _)
PlainOf(frames, k) ==
    IF k = 0 THEN <<>>
    ELSE Concat(PlainOf(frames, k - 1), frames[k].CipherData.data)

\* The frames Decrypt has written, and the smaller of two numbers.
Written == Cardinality({i \in 1..Len(dlog) : dlog[i] = [op |-> "Write", err |-> nil]})
Min(a, b) == IF a < b THEN a ELSE b

\* C8: order. The bytes Decrypt has written are at every point the chunks
\* of the first k frames of the stream, k the number of writes done, in
\* stream order, and at most frame k+1 has been decoded (exactly k when
\* Decrypt is about to decode).  Frame i of encrypt holds the i-th 65,536
\* byte slice of the input, and the reader is never more than one slice
\* ahead of the frames written (not ahead at all when encrypt is about to
\* read).
C8_Ordering ==
    /\ Written <= Len(DecFrames)
    /\ decOut = PlainOf(DecFrames, Written)
    /\ decIn.pos <= Written + 1
    /\ dpc = "decode" => decIn.pos = Written
    /\ \A i \in 1..Len(encOut) :
          encOut[i].CipherData.data =
              Run((i - 1) * DataLen, Min(DataLen, encIn.len - (i - 1) * DataLen))
    /\ encIn.pos <= (Len(encOut) + 1) * DataLen
    /\ epc = "read" => encIn.pos = Len(encOut) * DataLen

C8_Witness ==
    /\ dpc = "decode" /\ decIn.pos = 2 /\ Len(decIn.frames) = 3
    /\ decOut = Run(0, 2 * DataLen)

\* C9: one key material per session. Every frame written carries the round
\* and chain hash of the session and the DEK wrapped once, before the first
\* read, for the identity of that round; the frames differ in their chunk
\* ciphertext only.
C9_SameKeyMaterial ==
    /\ encOut # <<>> =>
          cipherText = IbeEncrypt(ChainPK, CalculateEncryptionID(roundNumber), dek)
    /\ \A i \in 1..Len(encOut) :
          /\ encOut[i].MetaData =
                [RoundNumber |-> roundNumber, ChainHash |-> ChainHashValue]
          /\ encOut[i].CipherDEK =
                [KyberPoint |-> MarshalG1(cipherText.U),
                 CipherV |-> cipherText.V, CipherW |-> cipherText.W]
          /\ \A j \in 1..Len(encOut) :
                j # i => encOut[j].CipherData # encOut[i].CipherData
    /\ Count(elog, "ibe.Encrypt") <= 1
    /\ Count(elog, "MarshalBinary") <= 1
    /\ \A j \in 1..Len(elog) :
          elog[j].op = "ReadFull" =>
              \A i \in (j + 1)..Len(elog) :
                  elog[i].op \notin {"ibe.Encrypt", "MarshalBinary"}

C9_Witness ==
    /\ Len(encOut) = 3
    /\ encOut[1].CipherDEK = encOut[3].CipherDEK
    /\ encOut[1].CipherData # encOut[3].CipherData

\* A call in a log that failed: an error that is not the end of the input.
Failing(e) ==
    /\ e.err # nil
    /\ ~(e.op \in {"ReadFull", "Decode"} /\ (Is(e.err, EOF) \/ Is(e.err, ErrUnexpectedEOF)))

C10_Terminates ==
    /\ \A i \in 1..Len(elog) :
          Failing(elog[i]) =>
              i = Len(elog) /\ epc = "returned" /\ Is(encErr, elog[i].err)
    /\ \A i \in 1..Len(dlog) :
          Failing(dlog[i]) =>
              i = Len(dlog) /\ dpc = "returned" /\ Is(decErr, dlog[i].err)

C10_Step ==
    /\ encErr' # nil => encOut' = encOut
    /\ epc = "returned" => UNCHANGED <<encIn, encOut, encErr, elog>>
    /\ decErr' # nil => decOut' = decOut
    /\ dpc = "returned" => UNCHANGED <<decIn, decOut, decErr, dlog, netlog>>

\* C10: propagation. A failed call (read, random source, network, ibe,
\* cipher, codec, write) is the last call of its session, which returns an
\* error that wraps the call's; the failing step writes no frame and no
\* plaintext, and once a session has returned its input is not read and
\* its output not written any more.
C10_Propagation == []C10_Terminates /\ [][C10_Step]_vars

C10_Witness ==
    /\ dpc = "returned" /\ Is(decErr, <<"context canceled">>)
    /\ decIn.pos = 2 /\ Len(decIn.frames) = 3
    /\ decOut = Run(0, DataLen)

\* The stream Decrypt runs on ends inside the frame after its whole frames.
Truncated ==
    /\ dpc # "idle"
    /\ decIn.cut
    /\ decIn.part \in Parts(encOut[Len(decIn.frames) + 1])

\* C11: truncated prefix. On a stream that ends inside frame k+1, Decrypt
\* never makes a write for the truncated frame; and when the network
\* answered the queries of the k whole frames with the signatures of their
\* rounds and no reader, writer or key fetch failed, Decrypt returns having
\* written exactly the chunks of the k whole frames, in order.
C11_TruncatedPrefix ==
    Truncated =>
        /\ Written <= Len(decIn.frames)
        /\ ( /\ dpc = "returned"
             /\ ~DecFailedIO
             /\ \A i \in 1..Min(Len(netlog), Len(decIn.frames)) :
                    netlog[i].event = "signed" )
           => /\ Written = Len(decIn.frames)
              /\ decOut = PlainOf(encOut, Len(decIn.frames))

C11_Witness ==
    /\ Truncated
    /\ dpc = "returned"
    /\ Len(decIn.frames) = 2
    /\ decIn.part.CipherData.kind = "short"
    /\ LastOp(dlog) = "Decrypt"
    /\ decOut = Run(0, 2 * DataLen)

\* C12: where the round comes from. A session started by EncryptWithRound
\* computes the identity of its round itself and makes no call of
\* EncryptionRoundAndID or RoundNumber.  A session started by
\* EncryptWithDuration calls EncryptionRoundAndID exactly once, before
\* anything else; when that call fails the session returns its error and
\* has made no other call: no public key fetched, nothing read, nothing
\* written.
C12_RoundSource ==
    /\ epc # "init" => CalledWithRound \/ CalledWithDuration
    /\ CalledWithRound =>
          /\ Count(elog, "EncryptionRoundAndID") = 0
          /\ Count(elog, "RoundNumber") = 0
          /\ id = CalculateEncryptionID(roundNumber)
    /\ CalledWithDuration =>
          /\ Count(elog, "EncryptionRoundAndID") = 1
          /\ Count(elog, "RoundNumber") = 0
          /\ elog[1].err # nil =>
                /\ Len(elog) = 1
                /\ epc = "returned"
                /\ Is(encErr, elog[1].err)
                /\ publicKey = ""
                /\ encIn.pos = 0
                /\ encOut = <<>>

C12_Witness ==
    /\ CalledWithDuration
    /\ elog[1].err # nil
    /\ epc = "returned"

\* Decrypt runs on the stream encrypt wrote with one frame changed, and the
\* place of that frame.
IsTampered ==
    /\ dpc # "idle"
    /\ ~decIn.cut
    /\ Len(decIn.frames) = Len(encOut)
    /\ decIn.frames # encOut
    /\ \A i \in 1..Len(encOut) :
          decIn.frames[i].MetaData = encOut[i].MetaData

TamperedAt == CHOOSE i \in 1..Len(encOut) : decIn.frames[i] # encOut[i]

\* The calls Decrypt makes for one frame, in order.
FrameOps ==
    <<"Decode", "IsReadyToDecrypt", "UnmarshalG2", "UnmarshalG1", "PublicKey",
      "VerifyBeacon", "ibe.Decrypt", "Decrypt", "Write">>

\* C13: tamper detection. When one field of frame i was changed, Decrypt
\* never makes a write for frame i or a later frame.  When the network
\* answers with the signatures of the rounds and no reader, writer or key
\* fetch fails, Decrypt returns an error, the chunks of the frames before i
\* written: for changed chunk ciphertext the error of the AEAD decryption of
\* frame i; for a changed U, V or W the error of unwrapping the DEK of frame
\* i (deserialising U, or ibe.Decrypt); for a changed V or W the error of
\* ibe.Decrypt, made after VerifyBeacon accepted the signature.
C13_TamperDetected ==
    IsTampered =>
      LET i == TamperedAt
          f == decIn.frames[i]
          first == 9 * (i - 1)
      IN /\ Written < i
         /\ (dpc = "returned" /\ AlwaysSigned /\ ~DecFailedIO) =>
               /\ decErr # nil
               /\ Written = i - 1
               /\ decOut = PlainOf(encOut, i - 1)
               /\ f.CipherData # encOut[i].CipherData =>
                     /\ Len(dlog) = first + 8
                     /\ LastOp(dlog) = "Decrypt"
                     /\ decErr = Wrap("decrypt data", dlog[Len(dlog)].err)
               /\ f.CipherDEK # encOut[i].CipherDEK =>
                     /\ LastOp(dlog) \in {"UnmarshalG1", "ibe.Decrypt"}
                     /\ Is(decErr, dlog[Len(dlog)].err)
                     /\ decErr[1] = "decrypt dek"
               /\ ( \/ f.CipherDEK.CipherV # encOut[i].CipherDEK.CipherV
                    \/ f.CipherDEK.CipherW # encOut[i].CipherDEK.CipherW ) =>
                     /\ Len(dlog) = first + 7
                     /\ LastOp(dlog) = "ibe.Decrypt"
                     /\ dlog[first + 6] = [op |-> "VerifyBeacon", err |-> nil]

C13_Witness ==
    /\ IsTampered
    /\ TamperedAt = 2
    /\ decIn.frames[2].CipherDEK.CipherV # encOut[2].CipherDEK.CipherV
    /\ dpc = "returned"
    /\ LastOp(dlog) = "ibe.Decrypt"
    /\ dlog[Len(dlog) - 1] = [op |-> "VerifyBeacon", err |-> nil]
    /\ decOut = Run(0, DataLen)

\* C14: the steps of a frame. The calls of Decrypt follow, frame after
\* frame, the order decode, ready query, deserialisation, key fetch, beacon
\* verification, ibe.Decrypt, AEAD decryption, write; a call is made only
\* when every call before it succeeded (the decode of the last frame may
\* have come with io.ErrUnexpectedEOF).  So a chunk is written only when,
\* for its own frame and in this order, the network reported the round of
\* the frame ready with the round's signature, VerifyBeacon accepted it,
\* ibe.Decrypt returned a key and the AEAD decryption succeeded.
C14_FrameSteps ==
    /\ \A j \in 1..Len(dlog) : dlog[j].op = FrameOps[((j - 1) % 9) + 1]
    /\ \A j \in 1..(Len(dlog) - 1) :
          \/ dlog[j].err = nil
          \/ dlog[j].op = "Decode" /\ Is(dlog[j].err, ErrUnexpectedEOF)
    /\ \A j \in 1..Len(dlog) :
          dlog[j] = [op |-> "Write", err |-> nil] =>
            LET f == ((j - 1) \div 9) + 1
            IN /\ f <= Len(netlog) /\ f <= Len(DecFrames)
               /\ netlog[f].round = DecFrames[f].MetaData.RoundNumber
               /\ netlog[f].ready
               /\ netlog[f].event = "signed"
               /\ dlog[j - 3] = [op |-> "VerifyBeacon", err |-> nil]
               /\ dlog[j - 2] = [op |-> "ibe.Decrypt", err |-> nil]
               /\ dlog[j - 1] = [op |-> "Decrypt", err |-> nil]
               /\ Len(decOut) > 0

C14_Witness ==
    /\ Len(dlog) >= 18
    /\ dlog[18] = [op |-> "Write", err |-> nil]
    /\ decOut = Run(0, 2 * DataLen)

\* C15: the outcomes of decode. With io.EOF Decrypt returns success at once;
\* nothing is done for a frame.  With io.ErrUnexpectedEOF the frame returned
\* is the last: it goes through the same steps as every frame, decode is not
\* called again, and when its chunk is written Decrypt returns success.
\* With any other error Decrypt returns it, wrapped, and makes no call of
\* the network for that frame.
C15_DecodeOutcomes ==
    \A j \in 1..Len(dlog) :
      dlog[j].op = "Decode" =>
        LET err == dlog[j].err
            before == (j - 1) \div 9
        IN /\ Is(err, EOF) =>
                /\ j = Len(dlog)
                /\ dpc = "returned" /\ decErr = nil
                /\ Len(netlog) = before /\ Written = before
           /\ Is(err, ErrUnexpectedEOF) =>
                /\ decDone
                /\ \A m \in (j + 1)..Len(dlog) : dlog[m].op # "Decode"
                /\ Len(dlog) > j => dlog[j + 1].op = "IsReadyToDecrypt"
                /\ Len(dlog) <= j + 8
                /\ (Len(dlog) = j + 8 /\ dlog[j + 8].err = nil) =>
                      /\ dpc = "returned" /\ decErr = nil
                      /\ Written = before + 1
                /\ dpc # "decode"
           /\ (err # nil /\ ~Is(err, EOF) /\ ~Is(err, ErrUnexpectedEOF)) =>
                /\ j = Len(dlog)
                /\ dpc = "returned"
                /\ decErr = Wrap("decoding input data", dlog[j].err)
                /\ Len(netlog) = before /\ Written = before

C15_Witness ==
    /\ Len(dlog) = 18
    /\ Is(dlog[10].err, ErrUnexpectedEOF)
    /\ dlog[18] = [op |-> "Write", err |-> nil]
    /\ dpc = "returned" /\ decErr = nil
    /\ decOut = Run(0, 2 * DataLen)

\* Decrypt runs on a stream whose frames are not all of one round.
IsSpliced ==
    /\ dpc # "idle"
    /\ ~decIn.cut
    /\ \E i, j \in 1..Len(decIn.frames) :
          decIn.frames[i].MetaData.RoundNumber # decIn.frames[j].MetaData.RoundNumber

\* C16: frames of different rounds. Decrypt neither rejects such a stream
\* nor treats it as of one round: the query for frame f asks for the round
\* of frame f, and a chunk is written only behind the signature of the round
\* of its own frame.  When all rounds are signed and nothing else fails the
\* whole plaintext is written; when the network reports the round of a
\* later frame as not signed yet, the signatures of the frames before it
\* given, Decrypt returns ErrTooEarly with the chunks of the frames before
\* it written.
C16_MixedRounds ==
    IsSpliced =>
      /\ \A f \in 1..Len(netlog) :
            netlog[f].round = decIn.frames[f].MetaData.RoundNumber
      /\ \A j \in 1..Len(dlog) :
            dlog[j] = [op |-> "Write", err |-> nil] =>
                netlog[((j - 1) \div 9) + 1].event = "signed"
      /\ (dpc = "returned" /\ AlwaysSigned /\ ~DecFailedIO) =>
            /\ decErr = nil
            /\ decOut = Plaintext(encIn.len)
      /\ ( /\ dpc = "returned" /\ ~DecFailedIO /\ netlog # <<>>
           /\ \A f \in 1..(Len(netlog) - 1) : netlog[f].event = "signed"
           /\ netlog[Len(netlog)].event = "unsigned" ) =>
            /\ Is(decErr, ErrTooEarly)
            /\ Written = Len(netlog) - 1
            /\ decOut = PlainOf(decIn.frames, Len(netlog) - 1)

C16_Witness ==
    /\ IsSpliced
    /\ dpc = "returned"
    /\ Is(decErr, ErrTooEarly)
    /\ Len(netlog) = 2
    /\ netlog[1] = [round |-> 1, event |-> "signed", ready |-> TRUE]
    /\ netlog[2] = [round |-> 2, event |-> "unsigned", ready |-> FALSE]
    /\ decOut = Run(0, DataLen)

\* The key material of the session is complete: the DEK drawn, the chain
\* public key fetched, the DEK wrapped for the identity of the round and
\* the CipherInfo of the session built from it.
KeyMaterialReady ==
    /\ dek \in Keys
    /\ publicKey = ChainPK
    /\ cipherText = IbeEncrypt(ChainPK, id, dek)
    /\ cipherInfo.MetaData = [RoundNumber |-> roundNumber, ChainHash |-> ChainHashValue]
    /\ cipherInfo.CipherDEK =
          [KyberPoint |-> MarshalG1(cipherText.U),
           CipherV |-> cipherText.V, CipherW |-> cipherText.W]

\* encrypt is in its loop.
Streaming == epc \in {"read", "encrypt", "encode"}

C17_Safe ==
    /\ Streaming => KeyMaterialReady
    /\ encOut # <<>> => KeyMaterialReady
    /\ Count(elog, "ReadFull") > 0 => KeyMaterialReady
    /\ \A j \in 1..Len(elog) :
          elog[j].op = "ReadFull" =>
             /\ Is(elog[j].err, EOF) =>
                   j = Len(elog) /\ epc = "returned" /\ encErr = nil
             /\ Is(elog[j].err, ErrUnexpectedEOF) =>
                   /\ Len(elog) <= j + 2
                   /\ \A m \in (j + 1)..Len(elog) : elog[m].op # "ReadFull"
                   /\ Len(elog) = j + 2 /\ elog[j + 2].err = nil =>
                         epc = "returned" /\ encErr = nil
    /\ epc = "returned" =>
          IF encErr = nil
          THEN /\ elog # <<>>
               /\ \A j \in 1..Len(elog) : ~Failing(elog[j])
               /\ \/ Is(elog[Len(elog)].err, EOF)
                  \/ /\ Len(elog) > 2
                     /\ Is(elog[Len(elog) - 2].err, ErrUnexpectedEOF)
                     /\ elog[Len(elog)] = [op |-> "Encode", err |-> nil]
          ELSE /\ elog # <<>>
               /\ Failing(elog[Len(elog)])
               /\ Is(encErr, elog[Len(elog)].err)

C17_Step ==
    epc = "returned" =>
        /\ epc' = "returned"
        /\ encErr' = encErr
        /\ encOut' = encOut
        /\ encIn' = encIn

\* C17: the encrypt session. A session gathers its key material, enters
\* its loop only with the key material complete, and returns, once: with
\* success (Done) after the read that met the end of the input was handled
\* (io.EOF at once, io.ErrUnexpectedEOF after its frame was written), or
\* with the error of the call that failed (Failed).  No frame is written
\* and nothing is read before the key material is complete.  On every
\* finite input the session returns.
C17_Session ==
    /\ []C17_Safe
    /\ [][C17_Step]_vars
    /\ <>(epc = "returned")

C17_Witness ==
    /\ epc = "returned"
    /\ encErr = nil
    /\ Len(encOut) = 3
    /\ Count(elog, "ReadFull") = 3
    /\ Is(elog[Len(elog) - 2].err, ErrUnexpectedEOF)

\* The calls that gather the key material of an encrypt session.
PrepOps == {"rand.Read", "PublicKey", "ibe.Encrypt", "MarshalBinary"}

\* C18: failure while gathering key material. When the random source, the
\* public key fetch, ibe.Encrypt or the serialisation of U fails, encrypt
\* returns that error at once: no byte of the input was read, no frame was
\* written, and none is afterwards.
C18_PrepFailure ==
    \A j \in 1..Len(elog) :
        (elog[j].op \in PrepOps /\ elog[j].err # nil) =>
            /\ j = Len(elog)
            /\ epc = "returned"
            /\ Is(encErr, elog[j].err)
            /\ encIn.pos = 0
            /\ Count(elog, "ReadFull") = 0
            /\ encOut = <<>>
            /\ Count(elog, "Encode") = 0

C18_Witness ==
    /\ epc = "returned"
    /\ LastOp(elog) = "MarshalBinary"
    /\ encErr = Wrap("marshal kyber point", ErrMarshal)
    /\ encIn.len = 2 * DataLen
    /\ encIn.pos = 0
    /\ encOut = <<>>

\* C19: no empty frame. Every frame written carries between 1 and 65,536
\* plaintext bytes and every frame but the last exactly 65,536; encrypt
\* never hands an empty chunk to the cipher.  A successful session has
\* written ceil(len / 65,536) frames: for a positive multiple of 65,536
\* that is len / 65,536 full frames and no empty frame behind them.
C19_NoEmptyFrame ==
    /\ \A i \in 1..Len(encOut) :
          /\ FrameSizes(encOut)[i] >= 1
          /\ FrameSizes(encOut)[i] <= DataLen
          /\ i < Len(encOut) => FrameSizes(encOut)[i] = DataLen
    /\ epc \in {"encrypt", "encode"} => NumBytes(data) >= 1
    /\ Count(elog, "Encrypt") <= (encIn.len + DataLen - 1) \div DataLen
    /\ (epc = "returned" /\ encErr = nil) =>
          /\ Len(encOut) = (encIn.len + DataLen - 1) \div DataLen
          /\ (encIn.len > 0 /\ encIn.len % DataLen = 0) =>
                /\ Len(encOut) = encIn.len \div DataLen
                /\ FrameSizes(encOut)[Len(encOut)] = DataLen

C19_Witness ==
    /\ epc = "returned" /\ encErr = nil
    /\ encIn.len = 2 * DataLen
    /\ FrameSizes(encOut) = <<DataLen, DataLen>>
    /\ elog[Len(elog)] = [op |-> "ReadFull", err |-> EOF]

\* C20: key before DEK. The chain public key is fetched before the data
\* encryption key is drawn, so a session whose public key fetch failed has
\* made no call of the random source and holds no DEK.
C20_KeyBeforeDek ==
    /\ \A i, j \in 1..Len(elog) :
          (elog[i].op = "PublicKey" /\ elog[j].op = "rand.Read") => i < j
    /\ \A i \in 1..Len(elog) :
          (elog[i].op = "PublicKey" /\ elog[i].err # nil) =>
              /\ Count(elog, "rand.Read") = 0
              /\ dek = ""

====
